---------------------------- MODULE Spec2Model ----------------------------
(***************************************************************************)
(* Model of app.py of pdf_to_mindmap_tool: heading detection              *)
(* (is_heading), outline construction (build_tree_from_lines), depth      *)
(* trimming (trim_depth) and the Graphviz DOT builder (to_dot).           *)
(*                                                                         *)
(* A text is a sequence of one-character strings.  The non-ASCII          *)
(* characters of the heading vocabulary are written as tokens:            *)
(*   "DAI" = U+7B2C, "SHO" = U+7AE0 (the chapter marker),                 *)
(*   "FU" = U+4ED8, "ROKU" = U+9332 (the appendix marker),                *)
(*   "FWDOT" = U+FF0E (fullwidth full stop),                              *)
(*   "FWCOLON" = U+FF1A (fullwidth colon).                                *)
(* A Node instance is an index into heap; 0 stands for None.              *)
(***************************************************************************)
EXTENDS Integers, Sequences, FiniteSets, TLC

VARIABLES lines, idx, heap, stack, last_added, pc, results, counter, dot, title, label

vars == <<lines, idx, heap, stack, last_added, pc, results, counter, dot, title, label>>

-----------------------------------------------------------------------------
(* Bounds of the model *)

MaxLines == 3

MaxDepth == 3

MaxTrims == 2

MaxTitleLen == 3

-----------------------------------------------------------------------------
(* Character classes of the regular expressions *)

Digit == {"0", "1", "2", "3", "4", "5", "6", "7", "8", "9"}

Space == {" ", "\t", "\n"}

Letter == {"A", "B", "C", "D", "E", "F", "G", "H", "I", "J", "K", "L", "M",
           "N", "O", "P", "Q", "R", "S", "T", "U", "V", "W", "X", "Y", "Z",
           "a", "b", "c", "d", "e", "f", "g", "h", "i", "j", "k", "l", "m",
           "n", "o", "p", "q", "r", "s", "t", "u", "v", "w", "x", "y", "z"}

Script == {"DAI", "SHO", "FU", "ROKU"}

AlnumScript == Letter \cup Digit \cup Script

NumSep == {".", "-"}

HeadSep == {")", ".", "FWDOT"}

ColonDash == {":", "FWCOLON", "-"}

Colon == {":", "FWCOLON"}

None == 0

-----------------------------------------------------------------------------
(* Text helpers: str.strip, str.count, slices *)

RECURSIVE LStrip(_)
LStrip(s) ==
    IF s = <<>> THEN s
    ELSE IF Head(s) \in Space THEN LStrip(Tail(s)) ELSE s

RECURSIVE RStrip(_)
RStrip(s) ==
    IF s = <<>> THEN s
    ELSE IF s[Len(s)] \in Space THEN RStrip(SubSeq(s, 1, Len(s) - 1)) ELSE s

Strip(s) == RStrip(LStrip(s))

From(s, i) == SubSeq(s, i, Len(s))

Count(s, cls) == Cardinality({i \in 1..Len(s) : s[i] \in cls})

NoNewline(s) == \A i \in 1..Len(s) : s[i] # "\n"

StartsWith(s, p) == Len(s) >= Len(p) /\ SubSeq(s, 1, Len(p)) = p

\* first position >= i of s holding a character outside cls (Len(s)+1 if none)
RECURSIVE SkipWhile(_, _, _)
SkipWhile(s, i, cls) ==
    IF i <= Len(s) /\ s[i] \in cls THEN SkipWhile(s, i + 1, cls) ELSE i

-----------------------------------------------------------------------------
(* re.match of each entry of _heading_patterns.  A match is                *)
(* [ok, groups]; a group is [set, val], set = FALSE for a group that took  *)
(* no part in the match (None in Python).                                  *)

NoMatch == [ok |-> FALSE, groups |-> <<>>]

Unset == [set |-> FALSE, val |-> <<>>]

Grp(v) == [set |-> TRUE, val |-> v]

\* \s*(.+)?$ on the text from position i: the optional last group
OptTail(s, i) ==
    LET r == From(s, SkipWhile(s, i, Space))
    IN  IF r = <<>> THEN [ok |-> TRUE, groups |-> <<Unset>>]
        ELSE IF NoNewline(r) THEN [ok |-> TRUE, groups |-> <<Grp(r)>>]
        ELSE NoMatch

\* \s*(.+)$ on the text from position i.  s is stripped, so the text from i
\* is empty or ends in a non-space character.
ReqTail(s, i) ==
    LET r == From(s, SkipWhile(s, i, Space))
    IN  IF r # <<>> /\ NoNewline(r) THEN Grp(r) ELSE Unset

\* MatchChapter for a pattern that asks for a space after the number
MatchChapterSpaced(s) ==
    IF s = <<>> \/ s[1] # "DAI" THEN NoMatch
    ELSE LET d == SkipWhile(s, 2, Space)
             e == SkipWhile(s, d, Digit)
             c == SkipWhile(s, e, Space)
         IN  IF e > d /\ c > e /\ c <= Len(s) /\ s[c] = "SHO"
             THEN OptTail(s, c + 1)
             ELSE NoMatch

\* r"^(?:DAI\s*\d+\s*SHO)\s*(.+)?$"
MatchChapter(s) ==
    IF s = <<>> \/ s[1] # "DAI" THEN NoMatch
    ELSE LET d == SkipWhile(s, 2, Space)
             e == SkipWhile(s, d, Digit)
             c == SkipWhile(s, e, Space)
         IN  IF e > d /\ c <= Len(s) /\ s[c] = "SHO"
             THEN OptTail(s, c + 1)
             ELSE NoMatch

Appendix == <<"A", "p", "p", "e", "n", "d", "i", "x">>

Furoku == <<"FU", "ROKU">>

\* r"^(?:Appendix|FU ROKU)\s*[:FWCOLON]?\s*(.+)?$"
MatchAppendix(s) ==
    LET n == IF StartsWith(s, Appendix) THEN Len(Appendix)
             ELSE IF StartsWith(s, Furoku) THEN Len(Furoku) ELSE 0
        a == SkipWhile(s, n + 1, Space)
        b == IF a <= Len(s) /\ s[a] \in Colon THEN a + 1 ELSE a
    IN  IF n = 0 THEN NoMatch ELSE OptTail(s, b)

\* \d+(?:[.\-]\d+){0,3} matching the whole of t
IsNumeral(t) ==
    /\ t # <<>>
    /\ \A i \in 1..Len(t) : t[i] \in Digit \cup NumSep
    /\ t[1] \in Digit /\ t[Len(t)] \in Digit
    /\ \A i \in 1..(Len(t) - 1) : ~(t[i] \in NumSep /\ t[i + 1] \in NumSep)
    /\ Count(t, NumSep) <= 3

\* r"^(\d+(?:[.\-]\d+){0,3})[)\.FWDOT]\s*(.+)$".  Every \d+ takes a whole run
\* of digits (what follows it is never a digit), so the candidates for group 1
\* differ only in the number of repetitions, and the greedy search returns the
\* longest one that lets the rest of the pattern match.
NumberedEnds(s) ==
    {p \in 1..(Len(s) - 1) :
        /\ IsNumeral(SubSeq(s, 1, p))
        /\ s[p + 1] \in HeadSep
        /\ ReqTail(s, p + 2).set}

MatchNumbered(s) ==
    LET ends == NumberedEnds(s)
        p == CHOOSE q \in ends : \A r \in ends : r <= q
    IN  IF ends = {} THEN NoMatch
        ELSE [ok |-> TRUE, groups |-> <<Grp(SubSeq(s, 1, p)), ReqTail(s, p + 2)>>]

\* r"^(\d+)\s*[:FWCOLON-]\s*(.+)$"
MatchInteger(s) ==
    LET e == SkipWhile(s, 1, Digit)
        c == SkipWhile(s, e, Space)
    IN  IF e > 1 /\ c <= Len(s) /\ s[c] \in ColonDash /\ ReqTail(s, c + 1).set
        THEN [ok |-> TRUE, groups |-> <<Grp(SubSeq(s, 1, e - 1)), ReqTail(s, c + 1)>>]
        ELSE NoMatch

_heading_patterns(s) == <<MatchChapter(s), MatchAppendix(s), MatchNumbered(s), MatchInteger(s)>>

-----------------------------------------------------------------------------
(* is_heading: None, or [level, title] *)

NotHeading == [level |-> None, title |-> <<>>]

IsHeadingResult(h) == h.level # None

\* the body of the loop for the first pattern that matches
HeadingOf(s, m) ==
    IF Len(m.groups) = 2 /\ m.groups[1].set /\ m.groups[1].val # <<>>
    THEN LET num == m.groups[1].val
             level == Count(num, {"."}) + Count(num, {"-"}) + 1
             t == Strip(m.groups[2].val)
         IN  [level |-> level, title |-> Strip(num \o <<" ">> \o t)]
    ELSE LET rest == IF Len(m.groups) >= 1 /\ m.groups[1].set
                     THEN m.groups[1].val ELSE <<>>
         IN  [level |-> 1, title |-> Strip(IF rest # <<>> THEN rest ELSE s)]

MaxFallbackLen == 30

Fallback(s) ==
    IF /\ Len(s) <= MaxFallbackLen
       /\ \E i \in 1..Len(s) : s[i] \in AlnumScript
       /\ s[Len(s)] \in Colon
    THEN [level |-> 1, title |-> Strip(SubSeq(s, 1, Len(s) - 1))]
    ELSE NotHeading

is_heading(line) ==
    LET s == Strip(line)
        ms == _heading_patterns(s)
        hits == {k \in 1..Len(ms) : ms[k].ok}
        first == CHOOSE k \in hits : \A j \in hits : k <= j
    IN  IF s = <<>> THEN NotHeading
        ELSE IF hits # {} THEN HeadingOf(s, ms[first])
        ELSE Fallback(s)

-----------------------------------------------------------------------------
(* Node and the heap of Node instances *)

Node(t) == [title |-> t, children |-> <<>>]

ROOT == <<"R", "O", "O", "T">>

root == 1

Max(a, b) == IF a >= b THEN a ELSE b

\* AddChild with insert(0, child) for append(child)
AddChildFront(h, parent, child) ==
    [h EXCEPT ![parent].children = <<child>> \o @]

\* parent.children.append(child)
AddChild(h, parent, child) ==
    [h EXCEPT ![parent].children = Append(@, child)]

-----------------------------------------------------------------------------
(* Input lines *)

Txt1A == <<"1", ".", " ", "A">>

Txt11B == <<"1", ".", "1", " ", "B">>

Txt2C == <<"2", ".", " ", "C">>

Txt11dB == <<"1", ".", "1", ".", " ", "B">>

Txt111C == <<"1", ".", "1", "-", "1", ")", " ", "C">>

Txt1111E == <<"1", ".", "1", ".", "1", ".", "1", ".", " ", "E">>

Txt3D == <<"3", ":", " ", "D">>

TxtBody == <<" ", "x">>

TxtBlank == <<" ">>

TxtDai1 == <<"DAI", "1", "SHO", " ", "I", "n", "t", "r", "o">>

TxtDai2 == <<"DAI", "2", "SHO", " ", "B", "o", "d", "y">>

TxtChapter1 == <<"C", "h", "a", "p", "t", "e", "r", " ", "1", " ", "I", "n", "t", "r", "o">>

TxtChapter2 == <<"C", "h", "a", "p", "t", "e", "r", " ", "2", " ", "B", "o", "d", "y">>

TxtAppendix == <<"A", "p", "p", "e", "n", "d", "i", "x", ":">>

TxtKey == <<"k", "FWCOLON">>

Txta == <<"a">>

Txtb == <<"b">>

Txtc == <<"c">>

LinePool == {Txt1A, Txt11dB, Txt111C, Txt1111E, Txt3D, TxtBody, TxtBlank, TxtDai1, TxtAppendix, TxtKey}

TreePool == {Txt1A, Txt11dB, TxtBody}

LinesNumbered == <<Txt1A, Txt11B, Txt2C>>

LinesChapter == <<TxtChapter1, Txta, Txtb, TxtChapter2, Txtc>>

LinesDai == <<TxtDai1, Txta, Txtb, TxtDai2, Txtc>>

SeqsUpTo(S, n) == UNION {[1..k -> S] : k \in 0..n}

Inputs == SeqsUpTo(LinePool, MaxLines) \cup {LinesNumbered, LinesChapter, LinesDai}

TreeInputs == SeqsUpTo(TreePool, MaxLines)

-----------------------------------------------------------------------------
(* build_tree_from_lines, one action per iteration of its loop *)

\* PopLoop with > for >=
RECURSIVE PopLoopStrict(_, _)
PopLoopStrict(st, level) ==
    IF st # <<>> /\ st[Len(st)].level > level
    THEN PopLoopStrict(SubSeq(st, 1, Len(st) - 1), level)
    ELSE st

\* while stack and stack[-1][0]>=level: stack.pop()
RECURSIVE PopLoop(_, _)
PopLoop(st, level) ==
    IF st # <<>> /\ st[Len(st)].level >= level
    THEN PopLoop(SubSeq(st, 1, Len(st) - 1), level)
    ELSE st

\* the state on entry to the loop: root, stack and last_added are set
BuildStart(ls) ==
    /\ lines = ls
    /\ idx = 0
    /\ heap = <<Node(ROOT)>>
    /\ stack = <<[level |-> 0, node |-> root]>>
    /\ last_added = root
    /\ pc = "loop"
    /\ results = <<>>
    /\ counter = 0
    /\ dot = [root |-> None, out |-> <<>>]
    /\ title = <<>>
    /\ label = <<>>

\* if not line: continue
BuildSkip ==
    /\ pc = "loop" /\ idx < Len(lines)
    /\ Strip(lines[idx + 1]) = <<>>
    /\ idx' = idx + 1
    /\ UNCHANGED <<lines, heap, stack, last_added, pc, results, counter, dot, title, label>>

\* Push that leaves the new heading off the stack
PushForgotten(st, level, node) == st

\* stack.append((level,node))
Push(st, level, node) == Append(st, [level |-> level, node |-> node])

\* if h: ... ; stack[-1] of an empty stack raises IndexError
BuildHeading ==
    /\ pc = "loop" /\ idx < Len(lines)
    /\ LET line == Strip(lines[idx + 1])
           h == is_heading(line)
           level == Max(1, h.level)
           node == Len(heap) + 1
           popped == PopLoop(stack, level)
       IN  /\ line # <<>>
           /\ IsHeadingResult(h)
           /\ IF popped = <<>>
              THEN /\ pc' = "IndexError"
                   /\ stack' = popped
                   /\ heap' = Append(heap, Node(h.title))
                   /\ UNCHANGED <<idx, last_added>>
              ELSE /\ heap' = AddChild(Append(heap, Node(h.title)), popped[Len(popped)].node, node)
                   /\ stack' = Push(popped, level, node)
                   /\ last_added' = node
                   /\ idx' = idx + 1
                   /\ pc' = pc
    /\ UNCHANGED <<lines, results, counter, dot, title, label>>

\* BodyParent that ignores last_added
BodyParentRoot(la) == root

\* parent=last_added if last_added is not None else root
BodyParent(la) == IF la # None THEN la ELSE root

\* else: parent.children.append(Node(line))
BuildBody ==
    /\ pc = "loop" /\ idx < Len(lines)
    /\ LET line == Strip(lines[idx + 1])
           parent == BodyParent(last_added)
       IN  /\ line # <<>>
           /\ ~IsHeadingResult(is_heading(line))
           /\ heap' = AddChild(Append(heap, Node(line)), parent, Len(heap) + 1)
    /\ idx' = idx + 1
    /\ UNCHANGED <<lines, stack, last_added, pc, results, counter, dot, title, label>>

\* return root
BuildReturn ==
    /\ pc = "loop" /\ idx = Len(lines)
    /\ pc' = "done"
    /\ UNCHANGED <<lines, idx, heap, stack, last_added, results, counter, dot, title, label>>

-----------------------------------------------------------------------------
(* trim_depth: the heap after the call and the Node returned (None = 0) *)

Depths == (0 - 1) .. MaxDepth

\* Cutoff with > for >=
CutoffAfter(depth, current) == current > depth

\* if current>=depth: return None
Cutoff(depth, current) == current >= depth

RECURSIVE trim_depth(_, _, _, _), TrimChildren(_, _, _, _, _, _), TrimChildrenShare(_, _, _, _, _, _)
trim_depth(h, node, depth, current) ==
    IF Cutoff(depth, current) THEN [heap |-> h, node |-> None]
    ELSE LET new_node == Len(h) + 1
             h1 == Append(h, Node(h[node].title))
         IN  IF h[node].children # <<>> /\ current + 1 < depth
             THEN TrimChildren(h1, node, new_node, 1, depth, current)
             ELSE [heap |-> h1, node |-> new_node]

\* TrimChildren that appends ch instead of its trimmed copy
TrimChildrenShare(h, node, new_node, i, depth, current) ==
    IF i > Len(h[node].children) THEN [heap |-> h, node |-> new_node]
    ELSE LET ch == h[node].children[i]
             r == trim_depth(h, ch, depth, current + 1)
             h2 == IF r.node # None THEN AddChild(r.heap, new_node, ch) ELSE r.heap
         IN  TrimChildrenShare(h2, node, new_node, i + 1, depth, current)

\* for ch in node.children, from the i-th child on
TrimChildren(h, node, new_node, i, depth, current) ==
    IF i > Len(h[node].children) THEN [heap |-> h, node |-> new_node]
    ELSE LET r == trim_depth(h, h[node].children[i], depth, current + 1)
             h2 == IF r.node # None THEN AddChild(r.heap, new_node, r.node) ELSE r.heap
         IN  TrimChildren(h2, node, new_node, i + 1, depth, current)

\* trimmed = trim_depth(root, depth)
Trim ==
    /\ pc = "done"
    /\ Len(results) < MaxTrims
    /\ \E depth \in Depths :
          LET r == trim_depth(heap, root, depth, 0)
          IN  /\ heap' = r.heap
              /\ results' = Append(results, [node |-> root, depth |-> depth, result |-> r.node])
    /\ UNCHANGED <<lines, idx, stack, last_added, pc, counter, dot, title, label>>

-----------------------------------------------------------------------------
(* to_dot.  The identifier n<i> is written i; the output is the list       *)
(* `lines` that to_dot joins with newlines, without the four fixed header  *)
(* lines and the closing brace.                                            *)

\* str.replace for a one-character old
RECURSIVE Replace(_, _, _)
Replace(s, old, new) ==
    IF s = <<>> THEN <<>>
    ELSE (IF Head(s) = old THEN new ELSE <<Head(s)>>) \o Replace(Tail(s), old, new)

\* esc that escapes the quotes before it doubles the backslashes
EscQuoteFirst(s) ==
    Replace(Replace(Replace(s, "\"", <<"\\", "\"">>), "\\", <<"\\", "\\">>), "\n", <<" ">>)

esc(s) ==
    Replace(Replace(Replace(s, "\\", <<"\\", "\\">>), "\"", <<"\\", "\"">>), "\n", <<" ">>)

Decl(nid, lab) == [kind |-> "decl", from |-> None, id |-> nid, label |-> lab]

Edge(parent, nid) == [kind |-> "edge", from |-> parent, id |-> nid, label |-> <<>>]

\* CounterStart for a counter kept between the calls
CounterKept(c) == c

\* counter = {"i": 0}: each call starts a counter of its own, whatever the
\* last call left in c
CounterStart(c) == 0

RECURSIVE add(_, _, _, _), AddChildren(_, _, _, _, _)
add(h, st, n, parent) ==
    LET nid == st.i + 1
        l1 == Append(st.lines, Decl(nid, esc(h[n].title)))
        l2 == IF parent # None THEN Append(l1, Edge(parent, nid)) ELSE l1
    IN  AddChildren(h, [i |-> nid, lines |-> l2], n, 1, nid)

\* for c in n.children: add(c, nid), from the k-th child on
AddChildren(h, st, n, k, nid) ==
    IF k > Len(h[n].children) THEN st
    ELSE AddChildren(h, add(h, st, h[n].children[k], nid), n, k + 1, nid)

to_dot(h, node, c) == add(h, [i |-> CounterStart(c), lines |-> <<>>], node, None)

\* the trees at hand: the built tree and the results of the trims
Trees == {root} \cup {results[k].result : k \in {j \in 1..Len(results) : results[j].result # None}}

\* dot_src = to_dot(trimmed)
ToDot ==
    /\ pc = "done"
    /\ \E n \in Trees :
          LET r == to_dot(heap, n, counter)
          IN  /\ dot' = [root |-> n, out |-> r.lines]
              /\ counter' = r.i
    /\ UNCHANGED <<lines, idx, heap, stack, last_added, pc, results, title, label>>

-----------------------------------------------------------------------------
(* esc applied to one title *)

EscAlphabet == {"\\", "\"", "\n", "a"}

EscStart(t) ==
    /\ lines = <<>>
    /\ idx = 0
    /\ heap = <<Node(ROOT)>>
    /\ stack = <<[level |-> 0, node |-> root]>>
    /\ last_added = root
    /\ pc = "esc"
    /\ results = <<>>
    /\ counter = 0
    /\ dot = [root |-> None, out |-> <<>>]
    /\ title = t
    /\ label = <<>>

Esc ==
    /\ pc = "esc"
    /\ label' = esc(title)
    /\ pc' = "escaped"
    /\ UNCHANGED <<lines, idx, heap, stack, last_added, results, counter, dot, title>>

-----------------------------------------------------------------------------
(* Specifications *)

Init == \E ls \in Inputs : BuildStart(ls)

Next == BuildSkip \/ BuildHeading \/ BuildBody \/ BuildReturn

Spec == Init /\ [][Next]_vars

InitTree == \E ls \in TreeInputs : BuildStart(ls)

NextTree == BuildHeading \/ BuildBody \/ BuildReturn \/ Trim \/ ToDot

SpecTree == InitTree /\ [][NextTree]_vars

InitEsc == \E t \in SeqsUpTo(EscAlphabet, MaxTitleLen) : EscStart(t)

NextEsc == Esc

SpecEsc == InitEsc /\ [][NextEsc]_vars

-----------------------------------------------------------------------------
(* The tree as the claims read it *)

Range(q) == {q[i] : i \in DOMAIN q}

\* the nodes build_tree_from_lines has made so far: the root and one node
\* for each consumed line that strip() leaves non-empty, in that order
KeptLines == SelectSeq(SubSeq(lines, 1, idx), LAMBDA l : Strip(l) # <<>>)

SrcN == 1 + Len(KeptLines)

SrcNodes == 1..SrcN

\* the level is_heading gives the line of node k (0 for a body line)
LevelOf(k) == is_heading(Strip(KeptLines[k - 1])).level

Headings == {k \in 2..SrcN : LevelOf(k) >= 1}

Bodies == {k \in 2..SrcN : LevelOf(k) = 0}

ParentsOf(k) == {p \in 1..Len(heap) : k \in Range(heap[p].children)}

SetMax(S) == CHOOSE m \in S : \A x \in S : x <= m

RECURSIVE Ancestors(_)
Ancestors(k) ==
    LET ps == ParentsOf(k) \cap 1..(k - 1)
    IN  ps \cup UNION {Ancestors(q) : q \in ps}

Ascending(q) == \A i \in 1..(Len(q) - 1) : q[i] < q[i + 1]

RECURSIVE Preorder(_, _), PreorderFrom(_, _, _)
Preorder(h, n) == <<n>> \o PreorderFrom(h, n, 1)

PreorderFrom(h, n, i) ==
    IF i > Len(h[n].children) THEN <<>>
    ELSE Preorder(h, h[n].children[i]) \o PreorderFrom(h, n, i + 1)

\* the tree below n as the set of its paths (child positions from n) with
\* the title found at the end of each
RECURSIVE PathTitles(_, _)
PathTitles(h, n) ==
    {[path |-> <<>>, title |-> h[n].title]} \cup
    UNION {{[path |-> <<i>> \o q.path, title |-> q.title] :
               q \in PathTitles(h, h[n].children[i])} : i \in 1..Len(h[n].children)}

Building == pc \in {"loop", "done"}

-----------------------------------------------------------------------------
(* C1: every heading of level L is appended as the last child of the       *)
(* nearest preceding heading of a strictly lower level, or of the root     *)
(* if there is none; two headings of the same level with no heading        *)
(* between them are siblings, and a heading is never placed below an       *)
(* earlier heading of the same or of a deeper level.                       *)

LowerBefore(k) == {j \in Headings : j < k /\ LevelOf(j) < LevelOf(k)}

ExpectedParent(k) == IF LowerBefore(k) = {} THEN root ELSE SetMax(LowerBefore(k))

HeadingPlacement ==
    Building =>
        /\ \A k \in Headings :
              /\ ParentsOf(k) = {ExpectedParent(k)}
              /\ \A j \in Headings :
                    j < k /\ LevelOf(j) >= LevelOf(k) => j \notin Ancestors(k)
              /\ \A j \in Headings :
                    /\ j < k /\ LevelOf(j) = LevelOf(k)
                    /\ \A m \in Headings : ~(j < m /\ m < k)
                    => ParentsOf(j) = ParentsOf(k)
        /\ \A p \in SrcNodes : Ascending(heap[p].children)
        /\ SrcN \in Headings =>
              LET c == heap[ExpectedParent(SrcN)].children IN c # <<>> /\ c[Len(c)] = SrcN

\* levels 2, 3, 1: the third heading closes both and goes to the root;
\* the first, of level 2, has no lower heading before it
HeadingPlacementWitness ==
    /\ pc = "done"
    /\ \E k \in Headings :
          /\ k - 2 \in Headings /\ k - 1 \in Headings
          /\ LevelOf(k - 2) = 2 /\ LevelOf(k - 1) = 3 /\ LevelOf(k) = 1
          /\ ParentsOf(k - 1) = {k - 2}
          /\ ParentsOf(k) = {root}

-----------------------------------------------------------------------------
(* C2: every body line is a leaf, appended as the last child of the most   *)
(* recently created heading whatever its level, and is a child of the      *)
(* root only if no heading came before it.                                 *)

HeadingsBefore(k) == {j \in Headings : j < k}

BodyPlacement ==
    Building =>
        /\ \A k \in Bodies :
              /\ heap[k].children = <<>>
              /\ ParentsOf(k) =
                    {IF HeadingsBefore(k) = {} THEN root ELSE SetMax(HeadingsBefore(k))}
              /\ root \in ParentsOf(k) => HeadingsBefore(k) = {}
        /\ SrcN \in Bodies =>
              \E p \in SrcNodes : heap[p].children # <<>>
                                  /\ heap[p].children[Len(heap[p].children)] = SrcN

\* a body line under a heading of level 2 that is itself under a heading
BodyPlacementWitness ==
    /\ pc = "done"
    /\ \E k \in Bodies : \E j \in Headings :
          ParentsOf(k) = {j} /\ LevelOf(j) = 2 /\ ParentsOf(j) # {root}

-----------------------------------------------------------------------------
(* C3: the lines "1. A", "1.1 B", "2. C" give root -> [A -> [B], C].       *)

NumberedExample ==
    pc = "done" /\ lines = LinesNumbered =>
        /\ Len(heap) = 4
        /\ heap[root].children = <<2, 4>>
        /\ heap[2].children = <<3>>
        /\ heap[3].children = <<>>
        /\ heap[4].children = <<>>
        /\ LevelOf(3) = LevelOf(2) + 1

-----------------------------------------------------------------------------
(* C4 as stated: the lines "Chapter 1 Intro", "a", "b", "Chapter 2 Body",  *)
(* "c" give root -> [Intro -> [a, b], Body -> [c]], both "Chapter" lines   *)
(* being headings of level 1.                                              *)

ChapterShape ==
    /\ Len(heap) = 6
    /\ LevelOf(2) = 1 /\ LevelOf(5) = 1
    /\ heap[root].children = <<2, 5>>
    /\ heap[2].children = <<3, 4>>
    /\ heap[5].children = <<6>>
    /\ \A k \in {3, 4, 6} : heap[k].children = <<>>
    /\ heap[3].title = Txta /\ heap[4].title = Txtb /\ heap[6].title = Txtc

-----------------------------------------------------------------------------
(* C9: one node per line that is non-empty after stripping, plus the root; *)
(* the pre-order of the tree without the root is the order of the lines,   *)
(* so every child list is in line order; no lines, no children.            *)

TitleOfLine(l) ==
    IF IsHeadingResult(is_heading(Strip(l))) THEN is_heading(Strip(l)).title ELSE Strip(l)

LineOrder ==
    Building =>
        /\ Len(heap) = SrcN
        /\ Preorder(heap, root) = [k \in 1..SrcN |-> k]
        /\ \A k \in 2..SrcN : heap[k].title = TitleOfLine(KeptLines[k - 1])
        /\ heap[root].title = ROOT
        /\ \A p \in 1..Len(heap) : Ascending(heap[p].children)
        /\ lines = <<>> => heap[root].children = <<>>

\* as many lines as the bound allows, none of them blank, on two levels
LineOrderWitness ==
    /\ pc = "done" /\ Len(lines) = MaxLines
    /\ SrcN = Len(lines)
    /\ \E k \in Headings : Len(heap[k].children) >= 1
    /\ Len(heap[root].children) >= 1

-----------------------------------------------------------------------------
(* C10: at every step the stack is non-empty with (0, root) at its bottom, *)
(* its levels increase strictly, its nodes are the path from the root to   *)
(* the most recently created heading, which is last_added, every stacked   *)
(* heading is no deeper than its level, and stack[-1] never fails.         *)

StackShape ==
    /\ pc # "IndexError"
    /\ stack # <<>>
    /\ stack[1] = [level |-> 0, node |-> root]
    /\ \A i \in 1..(Len(stack) - 1) :
          /\ stack[i].level < stack[i + 1].level
          /\ stack[i + 1].node \in Range(heap[stack[i].node].children)
    /\ stack[Len(stack)].node = last_added
    /\ last_added = (IF Headings = {} THEN root ELSE SetMax(Headings))
    /\ \A i \in 1..Len(stack) : i - 1 <= stack[i].level
    /\ \A i \in 2..Len(stack) : stack[i].level >= 1 /\ stack[i].level = LevelOf(stack[i].node)

\* after three headings the pop loop has left the root entry and a heading
\* of level 1
StackShapeWitness ==
    /\ pc = "loop" /\ idx = Len(lines)
    /\ Len(stack) = 2
    /\ Cardinality(Headings) = 3
    /\ stack[2].level = 1

-----------------------------------------------------------------------------
(* C5: trim_depth(node, D) is None for D <= 0; for D >= 1 it is the source *)
(* tree cut below depth D-1: the same paths of length at most D-1 with the *)
(* same titles at their ends, so the same parent-child relation and child  *)
(* order; no node of it is deeper than D-1, and every source node at depth *)
(* D-1 is in it, without children.                                         *)

RECURSIVE NodeAt(_, _, _)
NodeAt(h, n, path) ==
    IF path = <<>> THEN n ELSE NodeAt(h, h[n].children[Head(path)], Tail(path))

Restriction(h, n, depth) == {q \in PathTitles(h, n) : Len(q.path) <= depth - 1}

TrimAgrees ==
    \A k \in 1..Len(results) :
        LET call == results[k]
        IN  IF call.depth <= 0 THEN call.result = None
            ELSE /\ call.result # None
                 /\ PathTitles(heap, call.result) = Restriction(heap, call.node, call.depth)
                 /\ \A q \in PathTitles(heap, call.result) : Len(q.path) <= call.depth - 1
                 /\ \A q \in PathTitles(heap, call.node) :
                       Len(q.path) = call.depth - 1 =>
                           /\ q \in PathTitles(heap, call.result)
                           /\ heap[NodeAt(heap, call.result, q.path)].children = <<>>

\* a trim to depth 2 of a tree of height 2 or more: the grandchildren go,
\* their parent stays without children
TrimAgreesWitness ==
    \E k \in 1..Len(results) :
        /\ results[k].depth = 2 /\ results[k].result # None
        /\ \E q \in PathTitles(heap, results[k].node) : Len(q.path) = 2
        /\ \E q \in PathTitles(heap, results[k].result) : Len(q.path) = 1

-----------------------------------------------------------------------------
(* C6: no trim_depth call changes a node of the source tree, no node of a  *)
(* result is a node of the source, and the results of two calls share no   *)
(* node.                                                                   *)

Reach(h, n) == Range(Preorder(h, n))

ResultNodes(k) == IF results[k].result = None THEN {} ELSE Reach(heap, results[k].result)

Disjoint ==
    \A k \in 1..Len(results) :
        /\ ResultNodes(k) \cap SrcNodes = {}
        /\ \A j \in 1..Len(results) : j # k => ResultNodes(j) \cap ResultNodes(k) = {}

SourceKept == pc = "done" => \A n \in SrcNodes : heap'[n] = heap[n]

TrimDisjoint == []Disjoint /\ [][SourceKept]_vars

\* two trims of the same tree, each with a result of more than one node
TrimDisjointWitness ==
    /\ Len(results) >= 2
    /\ Cardinality(ResultNodes(1)) >= 2 /\ Cardinality(ResultNodes(2)) >= 2
    /\ SrcN >= 3

-----------------------------------------------------------------------------
(* C7: to_dot gives the k-th node of the pre-order the identifier n<k>,    *)
(* counting from 0 at every call: N declarations n1..nN in that order, N-1 *)
(* edges, one for each parent-child pair and none into the root, each from *)
(* a smaller to a larger identifier and after the declarations of both its *)
(* ends; a second call on the same tree gives the same output.             *)

IndexIn(q, x) == CHOOSE i \in 1..Len(q) : q[i] = x

DotShape ==
    dot.root # None =>
        LET order == Preorder(heap, dot.root)
            N == Len(order)
            out == dot.out
            decls == SelectSeq(out, LAMBDA l : l.kind = "decl")
            edges == SelectSeq(out, LAMBDA l : l.kind = "edge")
        IN  /\ counter = N
            /\ Len(out) = Len(decls) + Len(edges)
            /\ Len(decls) = N
            /\ \A k \in 1..N : decls[k].id = k /\ decls[k].label = esc(heap[order[k]].title)
            /\ Len(edges) = N - 1
            /\ {<<e.from, e.id>> : e \in Range(edges)} =
                  {<<IndexIn(order, pr), IndexIn(order, c)>> :
                      pr \in Range(order), c \in Range(order)}
                  \cap {<<a, b>> \in (1..N) \X (1..N) :
                            order[b] \in Range(heap[order[a]].children)}
            /\ \A e \in Range(edges) : e.from < e.id /\ e.id # 1
            /\ \A j \in 1..Len(out) :
                  out[j].kind = "edge" =>
                      /\ \E a \in 1..(j - 1) : out[a].kind = "decl" /\ out[a].id = out[j].from
                      /\ \E b \in 1..(j - 1) : out[b].kind = "decl" /\ out[b].id = out[j].id

SameAgain == dot.root # None /\ dot'.root = dot.root => dot'.out = dot.out

DotIdentifiers == []DotShape /\ [][SameAgain]_vars

\* the output for a trimmed copy with a grandchild, after an earlier call
DotIdentifiersWitness ==
    /\ dot.root # None /\ dot.root \notin SrcNodes
    /\ \E q \in PathTitles(heap, dot.root) : Len(q.path) = 2
    /\ Len(dot.out) >= 5

-----------------------------------------------------------------------------
(* C8: the label is the title with every backslash doubled, every          *)
(* double-quote turned into backslash double-quote and every newline into  *)
(* a space; it has no newline, and every double-quote in it follows an odd *)
(* number of consecutive backslashes.                                      *)

EscChar(c) ==
    IF c = "\\" THEN <<"\\", "\\">>
    ELSE IF c = "\"" THEN <<"\\", "\"">>
    ELSE IF c = "\n" THEN <<" ">>
    ELSE <<c>>

RECURSIVE EscEach(_)
EscEach(t) == IF t = <<>> THEN <<>> ELSE EscChar(Head(t)) \o EscEach(Tail(t))

\* the number of consecutive backslashes that end at position i of s
RECURSIVE BackslashRun(_, _)
BackslashRun(s, i) ==
    IF i >= 1 /\ s[i] = "\\" THEN 1 + BackslashRun(s, i - 1) ELSE 0

EscLabel ==
    pc = "escaped" =>
        /\ label = EscEach(title)
        /\ NoNewline(label)
        /\ \A i \in 1..Len(label) :
              label[i] = "\"" => BackslashRun(label, i - 1) % 2 = 1

\* a title with a backslash, a double-quote and a newline
EscLabelWitness ==
    /\ pc = "escaped"
    /\ {"\\", "\"", "\n"} \subseteq Range(title)

=============================================================================
